---- MODULE Spec2Model ----
(***************************************************************************)
(* Worker reactor of rsds (src/worker/state.rs): the local task / data     *)
(* object state machine of one worker, its ready queue and its subworker   *)
(* pool.  Every method of WorkerState is an operator from a worker state   *)
(* (a record) to the set of worker states the call can end in; an          *)
(* operator returns more than one state where the code iterates a hash     *)
(* set or pops one of several equal-priority queue entries.  A failed      *)
(* assert!, unreachable!() or todo!() stops the handler where it stands    *)
(* and records its name in the field panic; a worker that has panicked     *)
(* takes no further step.                                                  *)
(*                                                                         *)
(* Left out: the size of a data object and the candidate workers of a      *)
(* Remote one, the bytes of a Local one, and the priority that travels     *)
(* with a fetch request (the fetcher may serve the requests in any order). *)
(* The scheduler assigns a task id only while the id is not on the worker, *)
(* and with distinct dependency ids.                                       *)
(***************************************************************************)
EXTENDS Bags, FiniteSets, Integers, Sequences, TLC

\* ---- bounds of the model ----
MaxTaskId == 2
MaxDataId == 3
MaxSubworkers == 2
MaxPriority == 1
MaxObjects == 1
MaxDownloads == 2
MaxDeps == 2

TaskIds == 1..MaxTaskId
DataIds == 1..MaxDataId
SubworkerIds == 1..MaxSubworkers
PriorityValues == 0..MaxPriority
Priorities == PriorityValues \X PriorityValues

VARIABLES subworkers, free_subworkers, tasks, task_objs, ready_task_queue,
          data_objects, objs, download_chan, panic,
          stolen, \* history: the ids steal_task answered Ok for and that
                  \* the scheduler has not assigned again since
          fetch,  \* one call of transfer::fetch::fetch_data
          main    \* the server process of bin/rsds.rs and its scheduler thread

worker_vars ==
  <<subworkers, free_subworkers, tasks, task_objs, ready_task_queue,
    data_objects, objs, download_chan, panic, stolen>>

vars == <<worker_vars, fetch, main>>

\* ---- TaskState (worker/task.rs) ----
Waiting(n) == [k |-> "Waiting", n |-> n, sw |-> 0]
Running(sw) == [k |-> "Running", n |-> 0, sw |-> sw]
Removed == [k |-> "Removed", n |-> 0, sw |-> 0]

\* the worker state as one record; sender holds the messages the running
\* handler has sent to the server and steal_response what it answers, both
\* outputs of the handler that the worker does not keep
State ==
  [subworkers |-> subworkers, free_subworkers |-> free_subworkers,
   tasks |-> tasks, task_objs |-> task_objs,
   ready_task_queue |-> ready_task_queue, data_objects |-> data_objects,
   objs |-> objs, download_chan |-> download_chan, sender |-> <<>>,
   steal_response |-> "None", panic |-> panic]

SetState(s) ==
  /\ subworkers' = s.subworkers
  /\ free_subworkers' = s.free_subworkers
  /\ tasks' = s.tasks
  /\ task_objs' = s.task_objs
  /\ ready_task_queue' = s.ready_task_queue
  /\ data_objects' = s.data_objects
  /\ objs' = s.objs
  /\ download_chan' = s.download_chan
  /\ panic' = s.panic
  /\ UNCHANGED <<fetch, main>>

Panic(s, what) == [s EXCEPT !.panic = what]

\* f with key k bound to v (HashMap::insert), f without key k (HashMap::remove)
MapInsert(f, k, v) == [x \in DOMAIN f \cup {k} |-> IF x = k THEN v ELSE f[x]]
MapRemove(f, k) == [x \in DOMAIN f \ {k} |-> f[x]]

SetTaskState(s, t, st) == [s EXCEPT !.task_objs[t].state = st]

\* (user_priority, internal_priority) compared as Rust compares tuples
PriorityLess(p, q) == p[1] < q[1] \/ (p[1] = q[1] /\ p[2] < q[2])

\* ---- DataObject (worker/data.rs): the heap of data objects ----
\* A DataObjectRef is a slot of objs, <<id, k>> for the k-th object that is
\* alive with this id (the one in the index and those that left it but are
\* still referenced); a slot no reference points to any more (the index, a
\* task's deps, a pending fetch request) is dropped and free.
FreeSlot == [id |-> 0, state |-> "Free", consumers |-> {}]
ObjRefs == DataIds \X (1..MaxObjects)
DataObjectRef_new(id, state) == [id |-> id, state |-> state, consumers |-> {}]
FreeRefs(s, id) == {o \in ObjRefs : o[1] = id /\ s.objs[o] = FreeSlot}
NewRef(s, id) == CHOOSE o \in FreeRefs(s, id) : \A p \in FreeRefs(s, id) : o[2] <= p[2]

SeqRange(q) == {q[i] : i \in DOMAIN q}
Referenced(s) ==
  {s.data_objects[d] : d \in DOMAIN s.data_objects}
    \cup UNION {SeqRange(s.task_objs[t].deps) : t \in DOMAIN s.task_objs}
    \cup BagToSet(s.download_chan)
DropRemoved(s) ==
  [s EXCEPT !.task_objs = [t \in {u \in DOMAIN s.task_objs :
                                   s.task_objs[u].state # Removed} |-> s.task_objs[t]]]
DropUnreferenced(s) ==
  [s EXCEPT !.objs = [o \in ObjRefs |->
      IF o \in Referenced(s) THEN s.objs[o] ELSE FreeSlot]]

\* ---- Task (worker/task.rs) ----
TaskRef_new(priority) == [state |-> Waiting(0), priority |-> priority, deps |-> <<>>]
is_ready(task) == task.state = Waiting(0)
increase_waiting_count(task) ==
  [task EXCEPT !.state = Waiting(task.state.n + 1)]
\* decrease_waiting_count: Waiting(x) with x > 0 becomes Waiting(x - 1);
\* the result tells whether the count reached zero
decrease_waiting_count(s, t) ==
  LET st == s.task_objs[t].state IN
  IF st.k = "Waiting" /\ st.n > 0
  THEN SetTaskState(s, t, Waiting(st.n - 1))
  ELSE Panic(s, "decrease_waiting_count")
set_running(task, sw) == [task EXCEPT !.state = Running(sw)]

\* ---- reactor.rs: choose_subworker pops the free-subworker stack ----
choose_subworker(s) == s.free_subworkers[Len(s.free_subworkers)]

\* ---- WorkerState::set_subworkers ----
set_subworkers(s, subs) ==
  IF ~(DOMAIN s.subworkers = {} /\ s.free_subworkers = <<>>)
  THEN Panic(s, "set_subworkers")
  ELSE [s EXCEPT !.free_subworkers = subs,
                 !.subworkers = [id \in SeqRange(subs) |-> [running_task |-> 0]]]

\* ---- WorkerState::add_data_object ----
add_data_object(s, id, state) ==
  LET o == NewRef(s, id) IN
  [s EXCEPT !.objs[o] = DataObjectRef_new(id, state),
            !.data_objects = MapInsert(s.data_objects, id, o)]

send_message_to_server(s, msg) == [s EXCEPT !.sender = Append(s.sender, msg)]

\* ---- WorkerState::try_start_tasks ----
\* pop that returns an entry of smallest Reverse(priority)
PopCandidates_least(q) ==
  {t \in DOMAIN q : \A u \in DOMAIN q : ~PriorityLess(q[t], q[u])}

\* the entries PriorityQueue::pop may return: those of greatest
\* Reverse(priority), that is of smallest priority pair; the key holds no
\* TaskId, and which of several equal entries comes out is left to the heap
PopCandidates(q) ==
  {t \in DOMAIN q : \A u \in DOMAIN q : ~PriorityLess(q[u], q[t])}

\* the loop body without sw.running_task = Some(task_ref)
StartTask_unbound(s, t) ==
  LET s1 == [s EXCEPT !.ready_task_queue = MapRemove(s.ready_task_queue, t)]
      sw == choose_subworker(s1)
      s2 == [s1 EXCEPT !.free_subworkers = SubSeq(s1.free_subworkers, 1, Len(s1.free_subworkers) - 1),
                       !.task_objs[t] = set_running(s1.task_objs[t], sw)]
  IN IF s2.subworkers[sw].running_task # 0
     THEN Panic(s2, "try_start_tasks")
     ELSE s2

\* one iteration of the loop body for the popped task t
StartTask(s, t) ==
  LET s1 == [s EXCEPT !.ready_task_queue = MapRemove(s.ready_task_queue, t)]
      sw == choose_subworker(s1)
      s2 == [s1 EXCEPT !.free_subworkers = SubSeq(s1.free_subworkers, 1, Len(s1.free_subworkers) - 1),
                       !.task_objs[t] = set_running(s1.task_objs[t], sw)]
  IN IF s2.subworkers[sw].running_task # 0
     THEN Panic(s2, "try_start_tasks")
     ELSE [s2 EXCEPT !.subworkers[sw].running_task = t]

RECURSIVE StartLoop(_)
StartLoop(s) ==
  IF DOMAIN s.ready_task_queue = {} THEN {s}
  ELSE UNION {LET s1 == StartTask(s, t) IN
              IF s1.panic # "none" \/ s1.free_subworkers = <<>>
              THEN {s1} ELSE StartLoop(s1)
              : t \in PopCandidates(s.ready_task_queue)}

try_start_tasks(s) ==
  IF s.free_subworkers = <<>> THEN {s} ELSE StartLoop(s)

\* ---- WorkerState::add_ready_task ----
add_ready_task(s, t) ==
  try_start_tasks([s EXCEPT !.ready_task_queue =
      MapInsert(s.ready_task_queue, t, s.task_objs[t].priority)])

\* ---- WorkerState::on_data_downloaded ----
\* the loop over data_ref.consumers, a hash set: any iteration order
RECURSIVE ConsumersLoop(_, _)
ConsumersLoop(s, rest) ==
  IF rest = {} THEN {s}
  ELSE UNION {LET s1 == decrease_waiting_count(s, t) IN
              IF s1.panic # "none" THEN {s1}
              ELSE UNION {IF s2.panic # "none" THEN {s2}
                          ELSE ConsumersLoop(s2, rest \ {t})
                          : s2 \in IF is_ready(s1.task_objs[t])
                                   THEN add_ready_task(s1, t) ELSE {s1}}
              : t \in rest}

\* on_data_downloaded that takes a Removed object for a Remote one
on_data_downloaded_revives(s, o) ==
  LET data_obj == s.objs[o] IN
  CASE data_obj.state \in {"Remote", "Removed"} ->
         LET s1 == [s EXCEPT !.objs[o].state = "Local"]
             s2 == send_message_to_server(s1, <<"DataDownloaded", data_obj.id>>)
         IN ConsumersLoop(s2, data_obj.consumers)
    [] OTHER -> {Panic(s, "on_data_downloaded")}

\* on_data_downloaded that reports a dropped download to the server
on_data_downloaded_announces_removed(s, o) ==
  LET data_obj == s.objs[o] IN
  CASE data_obj.state = "Remote" ->
         LET s1 == [s EXCEPT !.objs[o].state = "Local"]
             s2 == send_message_to_server(s1, <<"DataDownloaded", data_obj.id>>)
         IN ConsumersLoop(s2, data_obj.consumers)
    [] data_obj.state = "Removed" ->
         {send_message_to_server(s, <<"DataDownloaded", data_obj.id>>)}
    [] OTHER -> {Panic(s, "on_data_downloaded")}

\* on_data_downloaded that forgets data_obj.state = Local
on_data_downloaded_stays_remote(s, o) ==
  LET data_obj == s.objs[o] IN
  CASE data_obj.state = "Remote" ->
         LET s2 == send_message_to_server(s, <<"DataDownloaded", data_obj.id>>)
         IN ConsumersLoop(s2, data_obj.consumers)
    [] data_obj.state = "Removed" -> {s}
    [] OTHER -> {Panic(s, "on_data_downloaded")}

on_data_downloaded(s, o) ==
  LET data_obj == s.objs[o] IN
  CASE data_obj.state = "Remote" ->
         LET s1 == [s EXCEPT !.objs[o].state = "Local"]
             s2 == send_message_to_server(s1, <<"DataDownloaded", data_obj.id>>)
         IN ConsumersLoop(s2, data_obj.consumers)
    [] data_obj.state = "Removed" -> {s}
    [] OTHER -> {Panic(s, "on_data_downloaded")}

\* add_dependancy that forgets is_remote = true for a newly created object
add_dependancy_new_not_remote(s, t, task_id) ==
  LET found == task_id \in DOMAIN s.data_objects
      o == IF found THEN s.data_objects[task_id] ELSE NewRef(s, task_id)
      s1 == IF found THEN s ELSE add_data_object(s, task_id, "Remote")
      is_remote == found /\ s1.objs[o].state = "Remote"
  IN IF s1.objs[o].state = "Removed" THEN Panic(s1, "add_dependancy")
     ELSE LET s2 == [s1 EXCEPT !.objs[o].consumers = @ \cup {t}]
              s3 == IF is_remote
                    THEN [s2 EXCEPT
                            !.task_objs[t] = increase_waiting_count(@),
                            !.download_chan = @ (+) SetToBag({o})]
                    ELSE s2
          IN [s3 EXCEPT !.task_objs[t].deps = Append(@, o)]

\* add_dependancy that forgets is_remote = true for an existing Remote object
add_dependancy_existing_not_remote(s, t, task_id) ==
  LET found == task_id \in DOMAIN s.data_objects
      o == IF found THEN s.data_objects[task_id] ELSE NewRef(s, task_id)
      s1 == IF found THEN s ELSE add_data_object(s, task_id, "Remote")
      is_remote == ~found
  IN IF s1.objs[o].state = "Removed" THEN Panic(s1, "add_dependancy")
     ELSE LET s2 == [s1 EXCEPT !.objs[o].consumers = @ \cup {t}]
              s3 == IF is_remote
                    THEN [s2 EXCEPT
                            !.task_objs[t] = increase_waiting_count(@),
                            !.download_chan = @ (+) SetToBag({o})]
                    ELSE s2
          IN [s3 EXCEPT !.task_objs[t].deps = Append(@, o)]

\* ---- WorkerState::add_dependancy ----
add_dependancy(s, t, task_id) ==
  LET found == task_id \in DOMAIN s.data_objects
      o == IF found THEN s.data_objects[task_id] ELSE NewRef(s, task_id)
      s1 == IF found THEN s ELSE add_data_object(s, task_id, "Remote")
      is_remote == s1.objs[o].state = "Remote"
  IN IF s1.objs[o].state = "Removed" THEN Panic(s1, "add_dependancy")
     ELSE LET s2 == [s1 EXCEPT !.objs[o].consumers = @ \cup {t}]
              s3 == IF is_remote
                    THEN [s2 EXCEPT
                            !.task_objs[t] = increase_waiting_count(@),
                            !.download_chan = @ (+) SetToBag({o})]
                    ELSE s2
          IN [s3 EXCEPT !.task_objs[t].deps = Append(@, o)]

\* ---- WorkerState::add_task ----
add_task(s, t) ==
  {[s1 EXCEPT !.tasks = @ \cup {t}] :
     s1 \in IF is_ready(s.task_objs[t]) THEN add_ready_task(s, t) ELSE {s}}

\* remove_data without the check of the consumers
remove_data_unchecked(s, task_id) ==
  IF task_id \notin DOMAIN s.data_objects THEN s
  ELSE LET o == s.data_objects[task_id]
       IN [s EXCEPT !.data_objects = MapRemove(@, task_id),
                    !.objs[o].state = "Removed"]

\* ---- WorkerState::remove_data ----
remove_data(s, task_id) ==
  IF task_id \notin DOMAIN s.data_objects THEN s
  ELSE LET o == s.data_objects[task_id]
           s1 == [s EXCEPT !.data_objects = MapRemove(@, task_id),
                           !.objs[o].state = "Removed"]
       IN IF s1.objs[o].consumers # {} THEN Panic(s1, "remove_data") ELSE s1

\* ---- WorkerState::remove_task ----
\* the loop body that leaves the task in the consumer set
remove_consumer_keeps(s, t, o, just_finished) ==
  IF t \notin s.objs[o].consumers THEN Panic(s, "remove_task:consumers")
  ELSE IF s.objs[o].consumers = {t} /\ s.objs[o].state = "Remote"
       THEN IF just_finished THEN Panic(s, "remove_task:remote")
            ELSE [s EXCEPT !.objs[o].state = "Removed"]
       ELSE s

\* the loop body that also marks a Local object Removed when its last
\* consumer has gone
remove_consumer_drops_local(s, t, o, just_finished) ==
  IF t \notin s.objs[o].consumers THEN Panic(s, "remove_task:consumers")
  ELSE LET s1 == [s EXCEPT !.objs[o].consumers = @ \ {t}] IN
       IF s1.objs[o].consumers = {}
       THEN IF s1.objs[o].state = "Remote" /\ just_finished
            THEN Panic(s1, "remove_task:remote")
            ELSE [s1 EXCEPT !.objs[o].state = "Removed"]
       ELSE s1

\* the loop body that leaves a Remote object without consumers Remote
remove_consumer_leaves_remote(s, t, o, just_finished) ==
  IF t \notin s.objs[o].consumers THEN Panic(s, "remove_task:consumers")
  ELSE [s EXCEPT !.objs[o].consumers = @ \ {t}]

\* the body of the loop over the task's deps, for the dep o
remove_consumer(s, t, o, just_finished) ==
  IF t \notin s.objs[o].consumers THEN Panic(s, "remove_task:consumers")
  ELSE LET s1 == [s EXCEPT !.objs[o].consumers = @ \ {t}] IN
       IF s1.objs[o].consumers = {} /\ s1.objs[o].state = "Remote"
       THEN IF just_finished THEN Panic(s1, "remove_task:remote")
            ELSE [s1 EXCEPT !.objs[o].state = "Removed"]
       ELSE s1

\* the match on the task's state that leaves a stolen Waiting(0) task queued
remove_task_match_keeps_queued(s, t, just_finished) ==
  LET task == s.task_objs[t] IN
  CASE task.state.k = "Waiting" ->
         IF just_finished THEN Panic(s, "remove_task:waiting") ELSE s
    [] task.state.k = "Running" ->
         IF just_finished THEN s ELSE Panic(s, "remove_task:running")
    [] OTHER -> Panic(s, "remove_task:removed")

\* the match on the task's state at the head of remove_task
remove_task_match(s, t, just_finished) ==
  LET task == s.task_objs[t] IN
  CASE task.state.k = "Waiting" ->
         IF just_finished THEN Panic(s, "remove_task:waiting")
         ELSE IF task.state.n = 0
              THEN IF t \in DOMAIN s.ready_task_queue
                   THEN [s EXCEPT !.ready_task_queue = MapRemove(@, t)]
                   ELSE Panic(s, "remove_task:queue")
              ELSE s
    [] task.state.k = "Running" ->
         IF just_finished THEN s ELSE Panic(s, "remove_task:running")
    [] OTHER -> Panic(s, "remove_task:removed")

RECURSIVE DepsLoop(_, _, _, _)
DepsLoop(s, t, deps, just_finished) ==
  IF deps = <<>> \/ s.panic # "none" THEN s
  ELSE DepsLoop(remove_consumer(s, t, Head(deps), just_finished),
                t, Tail(deps), just_finished)

remove_task(s, t, just_finished) ==
  LET task == s.task_objs[t]
      s1 == remove_task_match(s, t, just_finished)
  IN IF s1.panic # "none" THEN s1
     ELSE LET s2 == SetTaskState(s1, t, Removed) IN
          IF t \notin s2.tasks THEN Panic(s2, "remove_task:tasks")
          ELSE DepsLoop([s2 EXCEPT !.tasks = @ \ {t}, !.task_objs[t].deps = <<>>],
                        t, task.deps, just_finished)

\* ---- WorkerState::steal_task ----
\* steal_task that answers Ok for a Waiting task without removing it
steal_task_no_remove(s, task_id) ==
  IF task_id \notin s.tasks THEN [s EXCEPT !.steal_response = "NotHere"]
  ELSE LET k == s.task_objs[task_id].state.k IN
       CASE k = "Running" -> [s EXCEPT !.steal_response = "Running"]
         [] k = "Removed" -> [s EXCEPT !.steal_response = "NotHere"]
         [] OTHER -> [s EXCEPT !.steal_response = "Ok"]

steal_task(s, task_id) ==
  IF task_id \notin s.tasks THEN [s EXCEPT !.steal_response = "NotHere"]
  ELSE LET k == s.task_objs[task_id].state.k IN
       CASE k = "Running" -> [s EXCEPT !.steal_response = "Running"]
         [] k = "Removed" -> [s EXCEPT !.steal_response = "NotHere"]
         [] OTHER -> LET s1 == remove_task(s, task_id, FALSE) IN
                     IF s1.panic # "none" THEN s1
                     ELSE [s1 EXCEPT !.steal_response = "Ok"]

\* ---- handlers around WorkerState ----
\* Assign (ComputeTask): a new task, add_dependancy for each dep, add_task
RECURSIVE AddDeps(_, _, _)
AddDeps(s, t, deps) ==
  IF deps = <<>> \/ s.panic # "none" THEN s
  ELSE AddDeps(add_dependancy(s, t, Head(deps)), t, Tail(deps))

compute_task(s, t, priority, deps) ==
  LET s1 == AddDeps([s EXCEPT !.task_objs = MapInsert(@, t, TaskRef_new(priority))],
                    t, deps)
  IN IF s1.panic # "none" THEN {s1} ELSE add_task(s1, t)

\* TaskFinished from the subworker sw: free the subworker, remove the task
\* and report it to the server
on_task_finished(s, sw) ==
  LET t == s.subworkers[sw].running_task
      s1 == [s EXCEPT !.subworkers[sw].running_task = 0,
                      !.free_subworkers = Append(@, sw)]
      s2 == remove_task(s1, t, TRUE)
  IN IF s2.panic # "none" THEN s2
     ELSE send_message_to_server(s2, <<"TaskFinished", t>>)

\* the server process before main is entered
NoMain ==
  [pc |-> "none", ctrlc_ok |-> FALSE, args |-> "ok", scheduler |-> "workstealing",
   bind_ok |-> FALSE, rust_log |-> "unset", handler |-> FALSE, sigint |-> FALSE,
   bound |-> FALSE, thread |-> "none", selected |-> "none", joined |-> FALSE,
   exit_code |-> -1]

\* ---- transfer::fetch::fetch_data ----
MaxFrames == 2
MaxSerializer == 2
MaxBytes == 2

SerializationTypes == 1..MaxSerializer

\* DataRequest and DataResponse of transfer::messages
FetchRequest(task_id) == [op |-> "FetchRequest", task_id |-> task_id]
DataResponses ==
  {[op |-> "NotAvailable"], [op |-> "DataUploaded"]}
    \cup {[op |-> "Data", serializer |-> x] : x \in SerializationTypes}

\* rmp_serde::to_vec_named: the bytes of a frame that carry a message
to_vec_named(message) == <<"msgpack", message>>

\* what a frame of the peer can hold: a serialized DataResponse, a
\* serialized request sent back, or bytes that are no message at all
Frames ==
  {to_vec_named(m) : m \in DataResponses}
    \cup {to_vec_named(FetchRequest(t)) : t \in TaskIds}
    \cup {<<"raw", b>> : b \in 1..MaxBytes}

\* rmp_serde::from_slice::<DataResponse>: the message, or an error for
\* bytes that are not a serialized DataResponse
from_slice(data) ==
  IF data[1] = "msgpack" /\ data[2] \in DataResponses
  THEN [ok |-> TRUE, message |-> data[2]]
  ELSE [ok |-> FALSE, message |-> [op |-> "none"]]

\* what stream.next() yields: a frame or an I/O error; after the last
\* item of the script the connection is closed and it yields None
StreamItems == [ok : {TRUE}, frame : Frames] \cup {[ok |-> FALSE, frame |-> <<>>]}

RECURSIVE Scripts(_)
Scripts(n) ==
  IF n = 0 THEN {<<>>}
  ELSE Scripts(n - 1)
         \cup {Append(p, x) : p \in {q \in Scripts(n - 1) : Len(q) = n - 1},
                              x \in StreamItems}

NoResult == [ok |-> FALSE, data |-> <<>>, serializer |-> 0]
NoFetch ==
  [pc |-> "idle", task_id |-> 0, send_ok |-> FALSE, script |-> <<>>,
   pos |-> 0, sent |-> <<>>, serializer |-> 0, stream |-> "none",
   result |-> NoResult]

\* return Err(..): the stream, owned by the call, is dropped with it
FetchErr(f) ==
  [f EXCEPT !.pc = "done", !.stream = "dropped", !.result = NoResult]

\* the match on the response: the header of Data, an error otherwise
header_accepts_uploaded(message) ==
  CASE message.op = "NotAvailable" -> [ok |-> FALSE, serializer |-> 0]
    [] message.op = "Data" -> [ok |-> TRUE, serializer |-> message.serializer]
    [] message.op = "DataUploaded" -> [ok |-> TRUE, serializer |-> 1]

header(message) ==
  CASE message.op = "NotAvailable" -> [ok |-> FALSE, serializer |-> 0]
    [] message.op = "Data" -> [ok |-> TRUE, serializer |-> message.serializer]
    [] message.op = "DataUploaded" -> [ok |-> FALSE, serializer |-> 0]

\* the caller passes a connected stream and a task id
InitFetch ==
  /\ subworkers = << >>
  /\ free_subworkers = <<>>
  /\ tasks = {}
  /\ task_objs = << >>
  /\ ready_task_queue = << >>
  /\ data_objects = << >>
  /\ objs = [o \in ObjRefs |-> FreeSlot]
  /\ download_chan = EmptyBag
  /\ panic = "none"
  /\ stolen = {}
  /\ \E task_id \in TaskIds, send_ok \in BOOLEAN, script \in Scripts(MaxFrames) :
       fetch = [NoFetch EXCEPT !.pc = "send", !.task_id = task_id,
                               !.send_ok = send_ok, !.script = script,
                               !.stream = "held"]
  /\ main = NoMain

\* the request is serialized and handed to stream.send
FetchSend ==
  /\ fetch.pc = "send"
  /\ LET f == [fetch EXCEPT
                 !.sent = Append(@, to_vec_named(FetchRequest(fetch.task_id)))]
     IN fetch' = IF fetch.send_ok THEN [f EXCEPT !.pc = "response"]
                 ELSE FetchErr(f)
  /\ UNCHANGED <<worker_vars, main>>

\* the first stream.next(): the response is decoded and matched
FetchResponse ==
  /\ fetch.pc = "response"
  /\ fetch' =
       IF fetch.pos = Len(fetch.script) THEN FetchErr(fetch)
       ELSE LET item == fetch.script[fetch.pos + 1]
                f == [fetch EXCEPT !.pos = @ + 1]
            IN IF ~item.ok THEN FetchErr(f)
               ELSE LET message == from_slice(item.frame) IN
                    IF ~message.ok THEN FetchErr(f)
                    ELSE LET h == header(message.message) IN
                         IF ~h.ok THEN FetchErr(f)
                         ELSE [f EXCEPT !.pc = "body",
                                        !.serializer = h.serializer]
  /\ UNCHANGED <<worker_vars, main>>

\* the second stream.next(): the body frame, and the Ok return
FetchBody ==
  /\ fetch.pc = "body"
  /\ fetch' =
       IF fetch.pos = Len(fetch.script) THEN FetchErr(fetch)
       ELSE LET item == fetch.script[fetch.pos + 1]
                f == [fetch EXCEPT !.pos = @ + 1]
            IN IF ~item.ok THEN FetchErr(f)
               ELSE [f EXCEPT !.pc = "done", !.stream = "returned",
                              !.result = [ok |-> TRUE, data |-> item.frame,
                                          serializer |-> f.serializer]]
  /\ UNCHANGED <<worker_vars, main>>

NextFetch ==
  \/ FetchSend
  \/ FetchResponse
  \/ FetchBody

SpecFetch == InitFetch /\ [][NextFetch]_vars

\* ---- bin/rsds.rs: main and the scheduler thread ----
\* The inputs of a run: whether ctrlc::set_handler succeeds, what the
\* command line is (it parses, it does not, or it asks for the help text),
\* the scheduler it names, whether RUST_LOG is set and whether the port
\* can be bound.
SchedulerTypes == {"workstealing", "random"}
CommandLines == {"ok", "bad", "help"}

\* the process ends: 0 for Ok(()) returned by main, 1 for an Err returned
\* by main, 101 for a panic of the main thread; a scheduler thread that
\* still runs ends with the process
Exit(m, code) == [m EXCEPT !.pc = "exited", !.exit_code = code]

\* the futures of the select that can be the first to complete, each with
\* its result: the end flag once SIGINT was received, the connection
\* initiator and the scheduler observer with Ok or Err
SelectOutcomes(m) ==
  (IF m.sigint THEN {<<"end_flag", "Ok">>} ELSE {})
    \cup ({"scheduler", "connection"} \X {"Ok", "Err"})

\* scheduler_thread.join(): Err when the thread has panicked
scheduler_thread_join_ignores_panic(thread) == "Ok"

scheduler_thread_join(thread) == IF thread = "panicked" THEN "Err" ELSE "Ok"

InitMain ==
  /\ subworkers = << >>
  /\ free_subworkers = <<>>
  /\ tasks = {}
  /\ task_objs = << >>
  /\ ready_task_queue = << >>
  /\ data_objects = << >>
  /\ objs = [o \in ObjRefs |-> FreeSlot]
  /\ download_chan = EmptyBag
  /\ panic = "none"
  /\ stolen = {}
  /\ fetch = NoFetch
  /\ \E ctrlc_ok \in BOOLEAN, args \in CommandLines, scheduler \in SchedulerTypes,
        bind_ok \in BOOLEAN, rust_log \in {"unset", "debug"} :
       main = [NoMain EXCEPT !.pc = "start", !.ctrlc_ok = ctrlc_ok,
                             !.args = args, !.scheduler = scheduler,
                             !.bind_ok = bind_ok, !.rust_log = rust_log]

\* RUST_LOG gets its default, the logger starts, the SIGINT handler is set
MainSetHandler ==
  /\ main.pc = "start"
  /\ LET m == [main EXCEPT !.rust_log = IF @ = "unset" THEN "info" ELSE @]
     IN main' = IF main.ctrlc_ok
                THEN [m EXCEPT !.pc = "args", !.handler = TRUE]
                ELSE Exit(m, 101)
  /\ UNCHANGED <<worker_vars, fetch>>

\* Opt::from_args: a command line that does not parse ends the process
\* with status 1, the help text with status 0
MainArgs ==
  /\ main.pc = "args"
  /\ main' = CASE main.args = "ok" -> [main EXCEPT !.pc = "bind"]
               [] main.args = "bad" -> Exit(main, 1)
               [] main.args = "help" -> Exit(main, 0)
  /\ UNCHANGED <<worker_vars, fetch>>

\* TcpListener::bind(address).await?
MainBind ==
  /\ main.pc = "bind"
  /\ main' = IF main.bind_ok THEN [main EXCEPT !.pc = "spawn", !.bound = TRUE]
             ELSE Exit(main, 1)
  /\ UNCHANGED <<worker_vars, fetch>>

\* thread::spawn of the scheduler thread
MainSpawn ==
  /\ main.pc = "spawn"
  /\ main' = [main EXCEPT !.pc = "select", !.thread = "running"]
  /\ UNCHANGED <<worker_vars, fetch>>

\* SIGINT arrives while the handler is set: the handler sends on end_tx
Sigint ==
  /\ main.handler /\ main.pc # "exited" /\ ~main.sigint
  /\ main' = [main EXCEPT !.sigint = TRUE]
  /\ UNCHANGED <<worker_vars, fetch>>

\* the scheduler thread panics: one of its two expect calls fails
SchedulerPanic ==
  /\ main.pc # "exited" /\ main.thread = "running"
  /\ main' = [main EXCEPT !.thread = "panicked"]
  /\ UNCHANGED <<worker_vars, fetch>>

\* the scheduler returns Ok and the closure of the thread ends
SchedulerExit ==
  /\ main.pc # "exited" /\ main.thread = "running"
  /\ main' = [main EXCEPT !.thread = "finished"]
  /\ UNCHANGED <<worker_vars, fetch>>

\* select_all completes with the result of its first future to complete,
\* and expect("Rsds failed") panics on an Err
MainSelect ==
  /\ main.pc = "select"
  /\ \E o \in SelectOutcomes(main) :
       main' = IF o[2] = "Ok" THEN [main EXCEPT !.pc = "join", !.selected = "Ok"]
               ELSE Exit([main EXCEPT !.selected = "Err"], 101)
  /\ UNCHANGED <<worker_vars, fetch>>

\* scheduler_thread.join().unwrap() returns once the thread has ended,
\* and main returns Ok(())
MainJoin ==
  /\ main.pc = "join" /\ main.thread # "running"
  /\ LET m == [main EXCEPT !.joined = TRUE]
     IN main' = IF scheduler_thread_join(main.thread) = "Ok"
                THEN Exit(m, 0) ELSE Exit(m, 101)
  /\ UNCHANGED <<worker_vars, fetch>>

NextMain ==
  \/ MainSetHandler
  \/ MainArgs
  \/ MainBind
  \/ MainSpawn
  \/ Sigint
  \/ SchedulerPanic
  \/ SchedulerExit
  \/ MainSelect
  \/ MainJoin

SpecMain == InitMain /\ [][NextMain]_vars

\* ---- the worker as a state machine ----
\* dependency lists of a task t: distinct data ids other than its own output
DepLists(t) ==
  {q \in UNION {[1..n -> DataIds \ {t}] : n \in 0..MaxDeps} :
     \A i, j \in DOMAIN q : i # j => q[i] # q[j]}

Alive == panic = "none" /\ DOMAIN subworkers # {}
\* the state a handler starts from
Start == State
\* when the handler returns: the references it held are dropped, and with
\* them the Removed task and the data objects nothing refers to any more
Finish(s) == SetState(DropUnreferenced(DropRemoved(s)))

Init ==
  /\ subworkers = << >>
  /\ free_subworkers = <<>>
  /\ tasks = {}
  /\ task_objs = << >>
  /\ ready_task_queue = << >>
  /\ data_objects = << >>
  /\ objs = [o \in ObjRefs |-> FreeSlot]
  /\ download_chan = EmptyBag
  /\ panic = "none"
  /\ stolen = {}
  /\ fetch = NoFetch
  /\ main = NoMain

\* worker boot: the subworkers are created and registered
SetSubworkers ==
  /\ panic = "none" /\ DOMAIN subworkers = {}
  /\ \E n \in 1..MaxSubworkers :
       Finish(set_subworkers(Start, [i \in 1..n |-> i]))
  /\ UNCHANGED stolen

\* the scheduler assigns task t, which is not on the worker
Assign ==
  /\ Alive
  /\ \E t \in TaskIds \ tasks, priority \in Priorities :
       \E deps \in DepLists(t) :
         /\ \A i \in DOMAIN deps :
              deps[i] \in DOMAIN data_objects \/ FreeRefs(State, deps[i]) # {}
         /\ \E s \in compute_task(Start, t, priority, deps) :
              /\ BagCardinality(s.download_chan) <= MaxDownloads
              /\ Finish(s)
              /\ stolen' = stolen \ {t}

\* the fetcher completes a pending request of the download channel
DataDownloaded ==
  /\ Alive
  /\ \E r \in BagToSet(download_chan) :
       \E s \in on_data_downloaded(
                  [Start EXCEPT !.download_chan = @ (-) SetToBag({r})], r) :
         Finish(s)
  /\ UNCHANGED stolen

\* fetch_data returns an error: the request is dropped, nothing is delivered
FetchFailed ==
  /\ Alive
  /\ \E r \in BagToSet(download_chan) :
       Finish([Start EXCEPT !.download_chan = @ (-) SetToBag({r})])
  /\ UNCHANGED stolen

\* a subworker reports that its running task has finished
TaskFinished ==
  /\ Alive
  /\ \E sw \in DOMAIN subworkers :
       /\ subworkers[sw].running_task # 0
       /\ Finish(on_task_finished(Start, sw))
  /\ UNCHANGED stolen

\* StealRequest for the task id t
Steal ==
  /\ Alive
  /\ \E t \in TaskIds :
       LET s == steal_task(Start, t) IN
       /\ Finish(s)
       /\ stolen' = IF s.steal_response = "Ok" THEN stolen \cup {t} ELSE stolen

\* DeleteData for the data id d
RemoveData ==
  /\ Alive
  /\ \E d \in DataIds : Finish(remove_data(Start, d))
  /\ UNCHANGED stolen

Next ==
  \/ SetSubworkers
  \/ Assign
  \/ DataDownloaded
  \/ FetchFailed
  \/ TaskFinished
  \/ Steal
  \/ RemoveData

Spec == Init /\ [][Next]_vars

\* the worker when every running task eventually finishes: the subworker
\* of a running task reports its end
SpecLive == Init /\ [][Next]_vars /\ WF_vars(TaskFinished)

\* ---- properties ----
IsRunning(to, t) == t \in DOMAIN to /\ to[t].state.k = "Running"
DepsOf(to, t) == SeqRange(to[t].deps)
Pending(o) == BagIn(o, download_chan)

\* C1 (dependency safety): in every step, a task that becomes Running has
\* every data object of its deps in state Local at that moment.
C1_DependencySafety ==
  [][\A t \in TaskIds :
       (IsRunning(task_objs', t) /\ ~IsRunning(task_objs, t))
         => \A o \in DepsOf(task_objs', t) : objs'[o].state = "Local"]_vars

\* a task with two deps runs, both of them Local
C1_Witness ==
  \E t \in TaskIds :
    /\ IsRunning(task_objs, t)
    /\ Len(task_objs[t].deps) = 2
    /\ \A o \in DepsOf(task_objs, t) : objs[o].state = "Local"

\* a task whose wait count was positive before the step and that the step
\* made ready (it is queued or already running after it)
BecameReady(t) ==
  /\ t \in DOMAIN task_objs /\ t \in DOMAIN task_objs'
  /\ task_objs[t].state.k = "Waiting" /\ task_objs[t].state.n > 0
  /\ (task_objs'[t].state = Waiting(0) \/ task_objs'[t].state.k = "Running")

\* C2 (priority honored): of two tasks that one step makes ready, the one
\* of lower priority is not started unless the one of higher priority
\* (smaller (user_priority, internal_priority) pair) is started too.
C2_PriorityHonored ==
  [][\A t, u \in TaskIds :
       (/\ BecameReady(t) /\ BecameReady(u)
        /\ PriorityLess(task_objs[t].priority, task_objs[u].priority)
        /\ IsRunning(task_objs', u))
         => IsRunning(task_objs', t)]_vars

\* C3 (steal idempotence): once steal_task has answered Ok for an id, and
\* until the id is assigned again, the id is not in the task index and
\* steal_task for it answers NotHere and changes nothing.
C3_StealIdempotent ==
  \A t \in stolen :
    /\ t \notin tasks
    /\ steal_task(State, t) = [State EXCEPT !.steal_response = "NotHere"]

\* a task has been stolen while another task is still on the worker
C3_Witness == stolen # {} /\ tasks # {}

\* C4 (consumer consistency): a task is a consumer of a data object iff the
\* object is one of its deps, and remove_task always finds the task in the
\* consumer set of each of its deps.
C4_ConsumerConsistency ==
  /\ \A o \in ObjRefs, t \in TaskIds :
       t \in objs[o].consumers
         <=> (t \in DOMAIN task_objs /\ o \in DepsOf(task_objs, t))
  /\ panic # "remove_task:consumers"

\* a task has been stolen and a data object has a task of the index as
\* its only consumer
C4_Witness ==
  /\ stolen # {}
  /\ \E o \in ObjRefs, t \in tasks : objs[o].consumers = {t}

\* C5 (wait count): the count of a Waiting(n) task of a live worker is the
\* number of its deps whose data object is not Local.
C5_WaitingCount ==
  panic = "none" =>
    \A t \in DOMAIN task_objs :
      task_objs[t].state.k = "Waiting" =>
        task_objs[t].state.n =
          Cardinality({i \in DOMAIN task_objs[t].deps :
                         objs[task_objs[t].deps[i]].state # "Local"})

\* a task waits for one of its two deps, the other is Local
C5_Witness ==
  \E t \in tasks :
    /\ task_objs[t].state = Waiting(1)
    /\ Len(task_objs[t].deps) = 2
    /\ \E o \in DepsOf(task_objs, t) : objs[o].state = "Local"

\* C6 (ready queue): a task is in the ready queue iff it is in the index
\* in state Waiting(0); a queued task is no subworker's running task, and
\* a stolen Waiting(0) task is always found in the queue.
C6_ReadyQueue ==
  /\ \A t \in TaskIds :
       t \in DOMAIN ready_task_queue
         <=> (t \in tasks /\ task_objs[t].state = Waiting(0))
  /\ \A t \in DOMAIN ready_task_queue, sw \in DOMAIN subworkers :
       subworkers[sw].running_task # t
  /\ panic # "remove_task:queue"

\* a task waits in the ready queue while another one runs and no subworker
\* is free
C6_Witness ==
  /\ DOMAIN ready_task_queue # {} /\ free_subworkers = <<>>
  /\ \E t \in tasks : IsRunning(task_objs, t)

\* C7 (data object states): no data object goes from Local to Remote, and
\* a Removed data object stays Removed until it is dropped.
C7_DataStateMonotone ==
  [][\A o \in ObjRefs :
       /\ objs[o].state = "Local" => objs'[o].state # "Remote"
       /\ objs[o].state = "Removed" => objs'[o].state \in {"Removed", "Free"}]_vars

\* a Removed data object whose fetch is still pending
C7_Witness == \E o \in ObjRefs : objs[o].state = "Removed" /\ Pending(o)

C10_SubworkerBinding ==
  /\ \A i, j \in DOMAIN free_subworkers :
       /\ subworkers[free_subworkers[i]].running_task = 0
       /\ i # j => free_subworkers[i] # free_subworkers[j]
  /\ \A t \in DOMAIN task_objs :
       task_objs[t].state.k = "Running" =>
         /\ task_objs[t].state.sw \in DOMAIN subworkers
         /\ subworkers[task_objs[t].state.sw].running_task = t
  /\ \A sw \in DOMAIN subworkers :
       subworkers[sw].running_task # 0 =>
         /\ subworkers[sw].running_task \in DOMAIN task_objs
         /\ task_objs[subworkers[sw].running_task].state = Running(sw)
  /\ panic # "try_start_tasks"

\* two tasks run at once, each on its own subworker
C10_Witness ==
  \E t, u \in tasks : t # u /\ IsRunning(task_objs, t) /\ IsRunning(task_objs, u)

\* a task that was in the ready set when this step popped the queue: it
\* was queued before the step or the step assigned it
InReadySet(t) == t \in DOMAIN ready_task_queue \/ (t \notin tasks /\ t \in tasks')
Started(t) == IsRunning(task_objs', t) /\ ~IsRunning(task_objs, t)

\* C11 (TaskId breaks ties): of two tasks of equal priority that are both
\* in the ready set, the one with the greater TaskId is not started while
\* the one with the smaller TaskId stays queued.
C11_TieBreakByTaskId ==
  [][\A t, u \in TaskIds :
       (/\ t < u /\ InReadySet(t) /\ InReadySet(u)
        /\ Started(u) /\ t \in DOMAIN ready_task_queue'
        /\ task_objs'[t].priority = task_objs'[u].priority)
         => FALSE]_vars

\* C14 (effect of steal_task): NotHere for an id that is not in the index
\* and Running for a Running task, both without any change; Ok for a
\* Waiting task, which is then Removed, out of the index and out of the
\* queue, with every Remote dep that lost its last consumer Removed and
\* everything else as it was.
C14_StealEffect ==
  panic = "none" =>
    \A t \in TaskIds :
      LET s1 == steal_task(State, t) IN
      /\ t \notin tasks => s1 = [State EXCEPT !.steal_response = "NotHere"]
      /\ (t \in tasks /\ task_objs[t].state.k = "Running")
           => s1 = [State EXCEPT !.steal_response = "Running"]
      /\ (t \in tasks /\ task_objs[t].state.k = "Waiting")
           => /\ s1.panic = "none" /\ s1.steal_response = "Ok"
              /\ s1.task_objs[t].state = Removed
              /\ s1.tasks = tasks \ {t}
              /\ DOMAIN s1.ready_task_queue = DOMAIN ready_task_queue \ {t}
              /\ \A o \in DepsOf(task_objs, t) :
                   /\ s1.objs[o].consumers = objs[o].consumers \ {t}
                   /\ s1.objs[o].state =
                        IF objs[o].state = "Remote" /\ objs[o].consumers = {t}
                        THEN "Removed" ELSE objs[o].state
              /\ \A o \in ObjRefs \ DepsOf(task_objs, t) : s1.objs[o] = objs[o]
              /\ \A u \in DOMAIN task_objs \ {t} : s1.task_objs[u] = task_objs[u]
              /\ s1.data_objects = data_objects
              /\ s1.subworkers = subworkers
              /\ s1.free_subworkers = free_subworkers

\* a steal has left a Removed data object in the index
C14_Witness ==
  /\ stolen # {}
  /\ \E d \in DOMAIN data_objects : objs[data_objects[d]].state = "Removed"

\* C15 (effect of on_data_downloaded): for a Removed object nothing
\* changes and nothing is sent; for a Remote object the object becomes
\* Local, DataDownloaded(id) is sent once, and the wait count of each
\* consumer goes down by exactly one.
C15_DownloadEffect ==
  panic = "none" =>
    \A o \in BagToSet(download_chan) : \A s1 \in on_data_downloaded(State, o) :
      /\ objs[o].state = "Removed" => s1 = State
      /\ objs[o].state = "Remote" =>
           /\ s1.panic = "none"
           /\ s1.objs[o] = [objs[o] EXCEPT !.state = "Local"]
           /\ s1.sender = << <<"DataDownloaded", objs[o].id>> >>
           /\ \A t \in objs[o].consumers :
                /\ task_objs[t].state.k = "Waiting"
                /\ \/ s1.task_objs[t].state = Waiting(task_objs[t].state.n - 1)
                   \/ task_objs[t].state.n = 1 /\ s1.task_objs[t].state.k = "Running"
           /\ \A t \in DOMAIN task_objs \ objs[o].consumers :
                \/ s1.task_objs[t] = task_objs[t]
                \/ /\ t \in DOMAIN ready_task_queue
                   /\ s1.task_objs[t].state.k = "Running"

\* the fetch of a data object is still pending after the steal of its
\* last consumer has made it Removed
C15_Witness ==
  /\ stolen # {}
  /\ \E o \in ObjRefs :
       objs[o].state = "Removed" /\ objs[o].consumers = {} /\ Pending(o)

\* C16 (downloads find no Local object): on_data_downloaded never reaches
\* its unreachable!() branch.
C16_DownloadNeverLocal == panic # "on_data_downloaded"

\* C17 (try_start_tasks): after a step that has pushed or started a task
\* no subworker is free or the queue is empty; a started task is not of
\* lower priority than a task that stayed in the queue through the step;
\* it runs on a subworker that was free, and no running task is replaced.
C17_TryStart ==
  [][/\ (\E t \in TaskIds :
           Started(t) \/ (t \in DOMAIN ready_task_queue' /\ t \notin DOMAIN ready_task_queue))
        => (free_subworkers' = <<>> \/ DOMAIN ready_task_queue' = {})
     /\ \A t, u \in TaskIds :
          (Started(t) /\ u \in DOMAIN ready_task_queue /\ u \in DOMAIN ready_task_queue')
            => ~PriorityLess(ready_task_queue[u], task_objs'[t].priority)
     /\ \A t \in TaskIds :
          Started(t) =>
            /\ t \in DOMAIN ready_task_queue \/ t \notin tasks \/ task_objs[t].state.n > 0
            /\ task_objs'[t].state.sw \in SeqRange(free_subworkers)
            /\ task_objs'[t].state.sw \notin SeqRange(free_subworkers')
     /\ \A sw \in DOMAIN subworkers :
          subworkers[sw].running_task # 0 =>
            subworkers'[sw].running_task \in {subworkers[sw].running_task, 0}]_vars

\* a task has been started while another one, of lower priority, stays in
\* the queue it was in before
C17_Witness ==
  \E t, u \in tasks :
    /\ IsRunning(task_objs, t) /\ u \in DOMAIN ready_task_queue
    /\ PriorityLess(task_objs[t].priority, task_objs[u].priority)

\* C19 (no Removed object in the index): add_dependancy never reaches its
\* unreachable!() branch.
C19_AddDependancyNeverRemoved == panic # "add_dependancy"

\* C20 (consumers of a Remote object): every consumer of a Remote data
\* object is a task in state Waiting(n) with n >= 1, and the decrement of
\* on_data_downloaded never meets another state.
C20_RemoteConsumersWait ==
  /\ \A o \in ObjRefs :
       objs[o].state = "Remote" =>
         \A t \in objs[o].consumers :
           /\ t \in DOMAIN task_objs
           /\ task_objs[t].state.k = "Waiting"
           /\ task_objs[t].state.n >= 1
  /\ panic # "decrease_waiting_count"

\* two tasks wait for the same Remote data object
C20_Witness ==
  \E o \in ObjRefs :
    objs[o].state = "Remote" /\ Cardinality(objs[o].consumers) = 2

\* the response the peer's first item holds, if it holds one
FirstResponse ==
  IF Len(fetch.script) >= 1 /\ fetch.script[1].ok
       /\ from_slice(fetch.script[1].frame).ok
  THEN from_slice(fetch.script[1].frame).message.op
  ELSE "none"

\* C12 (fetch_data): a call that has returned has sent exactly one frame,
\* the FetchRequest of its task id; it returns Ok exactly when the request
\* went out, the first item of the peer is a Data response and a second
\* item is a frame, and then returns the stream, that frame's bytes and
\* the header's serializer; in every other case, NotAvailable,
\* DataUploaded and a close before either item among them, it returns an
\* error without data and the stream is dropped.
C12_FetchData ==
  /\ Len(fetch.sent) <= 1
  /\ fetch.pc \in {"response", "body", "done"}
       => fetch.sent = <<to_vec_named(FetchRequest(fetch.task_id))>>
  /\ fetch.pc = "done" =>
       /\ fetch.result.ok <=>
            /\ fetch.send_ok /\ FirstResponse = "Data"
            /\ Len(fetch.script) >= 2 /\ fetch.script[2].ok
       /\ fetch.result.ok =>
            /\ fetch.stream = "returned"
            /\ fetch.result.data = fetch.script[2].frame
            /\ fetch.result.serializer =
                 from_slice(fetch.script[1].frame).message.serializer
       /\ ~fetch.result.ok =>
            fetch.stream = "dropped" /\ fetch.result = NoResult
  /\ fetch.pc \in {"send", "response", "body"} =>
       fetch.stream = "held" /\ fetch.result = NoResult

\* the peer has answered DataUploaded and then sent a frame, and the call
\* has returned
C12_Witness ==
  /\ fetch.pc = "done" /\ fetch.send_ok
  /\ FirstResponse = "DataUploaded"
  /\ Len(fetch.script) = 2 /\ fetch.script[2].ok

Exited == main.pc = "exited"
CleanShutdown ==
  main.bound /\ main.selected = "Ok" /\ main.joined /\ main.thread = "finished"

\* C13 (exit status, as the claim states it): for a command line that
\* parses, the process exits with 0 only after the select has completed
\* and the scheduler thread has ended without a panic; a bind failure and
\* a panic of the scheduler thread give a non-zero status; once the
\* listener is bound the process does not exit before the join.
C13_ExitOnlyAfterJoin ==
  (Exited /\ main.args = "ok") =>
    /\ main.exit_code = 0 => CleanShutdown
    /\ (main.ctrlc_ok /\ ~main.bind_ok) => main.exit_code # 0
    /\ main.thread = "panicked" => main.exit_code # 0
    /\ main.bound => main.joined

\* C13 (exit status, amended): as above, but once the listener is bound
\* the process exits without the join exactly when the select has
\* completed with an error, and then with the status of a panic; after a
\* select that completed with Ok it exits only after the join.
C13_ExitStatus ==
  (Exited /\ main.args = "ok") =>
    /\ main.exit_code = 0 => CleanShutdown
    /\ (main.ctrlc_ok /\ ~main.bind_ok) => main.exit_code # 0
    /\ main.thread = "panicked" => main.exit_code # 0
    /\ main.bound => (main.joined <=> main.selected = "Ok")
    /\ (main.bound /\ ~main.joined) => main.exit_code = 101

\* the select has completed with an error while the scheduler thread
\* runs, and the process has exited
C13_Witness ==
  /\ Exited /\ main.bound /\ main.selected = "Err"
  /\ main.thread = "running" /\ ~main.joined

\* C18 (ready tasks get to run): on a worker that runs, a task in the
\* ready queue eventually is Running or is no longer on the worker, when
\* every running task eventually finishes.
C18_ReadyEventuallyRuns ==
  \A t \in TaskIds :
    (Alive /\ t \in DOMAIN ready_task_queue)
      ~> (IsRunning(task_objs, t) \/ t \notin tasks \/ panic # "none")
====
